---- MODULE Spec2Model ----
(***************************************************************************)
(* Label selector: lexer, recursive-descent parser, requirement validation *)
(* and matching (selector.py).                                             *)
(*                                                                         *)
(* A Python str is modelled as a sequence of one-character strings, so     *)
(* that the lexer's cursor, the token literals, the keyword table lookup   *)
(* and the key ordering are computed character by character as the code    *)
(* computes them.  <<>> is the empty str "".                               *)
(***************************************************************************)
EXTENDS Integers, Sequences, FiniteSets, TLC

VARIABLES
    pc,             \* "idle" | "scan" | "parse" | "done" | "built" | "error"
                    \* | "lexer" (a Lexer used on its own)
    s,              \* Lexer.s: the selector text
    pos,            \* Lexer.pos: the cursor
    scanned_items,  \* Parser.scanned_items
    position,       \* Parser.position
    requirements,   \* the local list `requirements` of Parser.parse
    selector,       \* Selector.requirements of the Selector returned
    err,            \* the exception that left parse / Requirement(), or "none"
    kvs,            \* the candidate map of the running Selector.matches call
    mi,             \* index of the requirement the matches loop is at
    mres,           \* "idle" | "running" | "True" | "False" | "ValueError"
    lpc,            \* where a Lexer.lex call run step by step stands
    cur_char,       \* the local `char` / `b` of the running lexer method
    cur_buffer,     \* the local `buffer` of the running scan method
    last_scanned_item,  \* the local of that name in scan_special_symbol
    ltok,           \* the token the latest Lexer.lex call returned
    llit,           \* the literal the latest Lexer.lex call returned
    lstart,         \* the cursor when the latest Lexer.lex call began
    lastop,         \* the latest cursor operation: "read" (advanced),
                    \* "eof" (read at the end), "unread", or "none"
    kvs2,           \* kvs, mi and mres of a second Selector.matches call
    mi2,            \* that runs concurrently on the same Selector
    mres2

\* the Lexer run step by step
lexvars == <<lpc, cur_char, cur_buffer, last_scanned_item, ltok, llit, lstart,
            lastop>>

\* the second matches call
callvars2 == <<kvs2, mi2, mres2>>

vars == <<pc, s, pos, scanned_items, position, requirements, selector, err,
          kvs, mi, mres, lexvars, callvars2>>

-----------------------------------------------------------------------------
(* Bounds of the checked inputs.                                           *)

\* most requirement fragments in one selector text
MaxReqs == 2
\* most items in one parenthesized value list
MaxItems == 3
\* most values handed to Requirement() directly
MaxVals == 2

-----------------------------------------------------------------------------
(* Characters.                                                             *)

\* what Lexer.read returns at end of input (the int 0, equal to no str)
NUL == "NUL"

is_whitespace(char) == char \in {" ", "\t", "\r", "\n"}

is_special_symbol(char) == char \in {"=", "!", "(", ")", ",", ">", "<"}

\* code points of the characters the checked inputs use (str comparison)
CharCode(c) ==
    CASE c = " " -> 32 [] c = "!" -> 33 [] c = "(" -> 40 [] c = ")" -> 41
      [] c = "+" -> 43 [] c = "," -> 44 [] c = "-" -> 45
      [] c = "0" -> 48 [] c = "1" -> 49 [] c = "2" -> 50
      [] c = "<" -> 60 [] c = "=" -> 61 [] c = ">" -> 62 [] c = "^" -> 94
      [] c = "a" -> 97 [] c = "b" -> 98 [] c = "c" -> 99 [] c = "e" -> 101
      [] c = "i" -> 105 [] c = "n" -> 110 [] c = "o" -> 111 [] c = "r" -> 114
      [] c = "t" -> 116 [] c = "x" -> 120 [] c = "y" -> 121 [] c = "z" -> 122

-----------------------------------------------------------------------------
(* Tokens.                                                                 *)

\* the table without its entry for "("
token_map_without_open_par ==
    (<<")">> :> "ClosedParToken") @@ (<<",">> :> "CommaToken")
    @@ (<<"!">> :> "DoesNotExistToken") @@ (<<"=">> :> "EqualsToken")
    @@ (<<">">> :> "GreaterThanToken") @@ (<<"i", "n">> :> "InToken")
    @@ (<<"<">> :> "LessThanToken") @@ (<<"!", "=">> :> "NotEqualsToken")
    @@ (<<"n", "o", "t", "i", "n">> :> "NotInToken")
    @@ (<<"r", "e">> :> "RegexToken")

token_map ==
    (<<")">> :> "ClosedParToken") @@ (<<",">> :> "CommaToken")
    @@ (<<"!">> :> "DoesNotExistToken") @@ (<<"=">> :> "EqualsToken")
    @@ (<<">">> :> "GreaterThanToken") @@ (<<"i", "n">> :> "InToken")
    @@ (<<"<">> :> "LessThanToken") @@ (<<"!", "=">> :> "NotEqualsToken")
    @@ (<<"n", "o", "t", "i", "n">> :> "NotInToken")
    @@ (<<"(">> :> "OpenParToken") @@ (<<"r", "e">> :> "RegexToken")

ScannedItem(tok, literal) == [tok |-> tok, literal |-> literal]

\* last_scanned_item = None
NoItem == [tok |-> "None", literal |-> <<>>]

-----------------------------------------------------------------------------
(* Lexer.  Every operator takes the cursor and returns the new one.        *)

\* a read that moves the cursor at the end of the input too
read_past_end(str, p) ==
    IF p < Len(str) THEN [b |-> str[p + 1], pos |-> p + 1]
    ELSE [b |-> NUL, pos |-> p + 1]

read(str, p) ==
    IF p < Len(str) THEN [b |-> str[p + 1], pos |-> p + 1]
    ELSE [b |-> NUL, pos |-> p]

\* an unread that rewinds two characters where there are two
unread_twice(p) == IF p >= 2 THEN p - 2 ELSE p - 1

\* an unread that rewinds nothing
unread_nothing(p) == p

unread(p) == p - 1

\* whitespace handed back as it came
skip_whitespaces_none(str, p, char) == [b |-> char, pos |-> p]

RECURSIVE skip_whitespaces(_, _, _)
skip_whitespaces(str, p, char) ==
    IF ~is_whitespace(char) THEN [b |-> char, pos |-> p]
    ELSE LET r == read(str, p) IN skip_whitespaces(str, r.pos, r.b)

RECURSIVE scan_id_loop(_, _, _)
scan_id_loop(str, p, buffer) ==
    LET r == read(str, p) IN
    IF r.b = NUL THEN [buffer |-> buffer, pos |-> r.pos]
    ELSE IF is_special_symbol(r.b) \/ is_whitespace(r.b)
         THEN [buffer |-> buffer, pos |-> unread(r.pos)]
         ELSE scan_id_loop(str, r.pos, Append(buffer, r.b))

scan_id_or_keyword(str, p) ==
    LET l == scan_id_loop(str, p, <<>>) IN
    IF l.buffer \in DOMAIN token_map
    THEN [tok |-> token_map[l.buffer], literal |-> l.buffer, pos |-> l.pos]
    ELSE [tok |-> "IdentifierToken", literal |-> l.buffer, pos |-> l.pos]

\* the while loop of scan_special_symbol; reading last_scanned_item.tok while
\* it is None raises AttributeError, returned here as last = "AttributeError"
RECURSIVE scan_special_loop(_, _, _, _)
scan_special_loop(str, p, buffer, last) ==
    LET r == read(str, p) IN
    IF r.b = NUL THEN [last |-> last, buffer |-> buffer, pos |-> r.pos]
    ELSE IF is_special_symbol(r.b)
         THEN LET buf == Append(buffer, r.b) IN
              IF buf \in DOMAIN token_map
              THEN scan_special_loop(str, r.pos, buf,
                                     ScannedItem(token_map[buf], buf))
              ELSE IF last = NoItem
                   THEN [last |-> ScannedItem("AttributeError", buf),
                         buffer |-> buf, pos |-> r.pos]
                   ELSE [last |-> last, buffer |-> buf, pos |-> unread(r.pos)]
         ELSE [last |-> last, buffer |-> buffer, pos |-> unread(r.pos)]

scan_special_symbol(str, p) ==
    LET l == scan_special_loop(str, p, <<>>, NoItem) IN
    IF l.last = NoItem \/ l.last.tok = "AttributeError"
    THEN [tok |-> "AttributeError", literal |-> l.buffer, pos |-> l.pos]
    ELSE IF l.last.tok = "UnknownToken"
         THEN [tok |-> "UnknownToken", literal |-> l.buffer, pos |-> l.pos]
         ELSE [tok |-> l.last.tok, literal |-> l.last.literal, pos |-> l.pos]

lex(str, p) ==
    LET r0 == read(str, p)
        r  == skip_whitespaces(str, r0.pos, r0.b)
    IN  IF r.b = NUL
        THEN [tok |-> "EndOfStringToken", literal |-> <<>>, pos |-> r.pos]
        ELSE IF is_special_symbol(r.b)
             THEN scan_special_symbol(str, unread(r.pos))
             ELSE scan_id_or_keyword(str, unread(r.pos))

-----------------------------------------------------------------------------
(* StringSet: a dict used as an insertion-ordered set.                     *)

InList(item, list) == \E i \in 1..Len(list) : list[i] = item

\* StringSet.insert with one item: self.set[item] = True
insert(set, item) == IF InList(item, set) THEN set ELSE Append(set, item)

-----------------------------------------------------------------------------
(* int(v) on a str of the characters above: surrounding whitespace is      *)
(* stripped, one sign is allowed, the rest must be one or more digits.     *)

IsDigit(c) == c \in {"0", "1", "2"}

DigitVal(c) == CASE c = "0" -> 0 [] c = "1" -> 1 [] c = "2" -> 2

RECURSIVE lstrip(_)
lstrip(v) == IF v # <<>> /\ is_whitespace(Head(v)) THEN lstrip(Tail(v)) ELSE v

RECURSIVE rstrip(_)
rstrip(v) ==
    IF v # <<>> /\ is_whitespace(v[Len(v)])
    THEN rstrip(SubSeq(v, 1, Len(v) - 1)) ELSE v

RECURSIVE DigitsVal(_)
DigitsVal(d) ==
    IF d = <<>> THEN 0
    ELSE DigitsVal(SubSeq(d, 1, Len(d) - 1)) * 10 + DigitVal(d[Len(d)])

\* [ok |-> FALSE] stands for the ValueError int() raises
int(v) ==
    LET Digits(neg, d) ==
            IF d # <<>> /\ \A i \in 1..Len(d) : IsDigit(d[i])
            THEN [ok |-> TRUE,
                  val |-> IF neg THEN 0 - DigitsVal(d) ELSE DigitsVal(d)]
            ELSE [ok |-> FALSE, val |-> 0]
        Signed(t) ==
            IF t # <<>> /\ Head(t) \in {"+", "-"}
            THEN Digits(Head(t) = "-", Tail(t))
            ELSE Digits(FALSE, t)
    IN  Signed(rstrip(lstrip(v)))

-----------------------------------------------------------------------------
(* Requirement.                                                            *)

Operators == {"DoesNotExist", "Equals", "In", "NotEquals", "NotIn", "Exists",
              "GreaterThan", "LessThan", "Regex"}

\* Requirement.__init__ without the int() check of 'gt' and 'lt'
Requirement_unchecked_int(key, operator, values) ==
    LET made == [err |-> "none",
                 req |-> [key |-> key, operator |-> operator,
                          values |-> values]]
        fail == [err |-> "ValidationError",
                 req |-> [key |-> key, operator |-> operator,
                          values |-> values]]
    IN  IF operator \in {"In", "NotIn"}
        THEN IF Len(values) = 0 THEN fail ELSE made
        ELSE IF operator \in {"Equals", "NotEquals", "Regex", "GreaterThan",
                              "LessThan"}
        THEN IF Len(values) # 1 THEN fail ELSE made
        ELSE IF operator \in {"Exists", "DoesNotExist"}
        THEN IF Len(values) # 0 THEN fail ELSE made
        ELSE fail

\* Requirement.__init__: err is "none" or the exception raised
Requirement(key, operator, values) ==
    LET made == [err |-> "none",
                 req |-> [key |-> key, operator |-> operator,
                          values |-> values]]
        fail == [err |-> "ValidationError",
                 req |-> [key |-> key, operator |-> operator,
                          values |-> values]]
    IN  IF operator \in {"In", "NotIn"}
        THEN IF Len(values) = 0 THEN fail ELSE made
        ELSE IF operator \in {"Equals", "NotEquals", "Regex"}
        THEN IF Len(values) # 1 THEN fail ELSE made
        ELSE IF operator \in {"Exists", "DoesNotExist"}
        THEN IF Len(values) # 0 THEN fail ELSE made
        ELSE IF operator \in {"GreaterThan", "LessThan"}
        THEN IF Len(values) # 1 THEN fail
             ELSE IF \E i \in 1..Len(values) : ~int(values[i]).ok
                  THEN fail ELSE made
        ELSE fail

\* has_value looking at the first value only
has_value_first(r, value) == r.values # <<>> /\ r.values[1] = value

\* Requirement.has_value; str(value) of a str is the str itself
has_value(r, value) == \E i \in 1..Len(r.values) : r.values[i] = value

\* re.match(pattern, string) for the patterns the checked inputs use:
\* literal characters, optionally after one "^"; a match must start at
\* the first character of string
re_match(pattern, string) ==
    LET lit == IF pattern # <<>> /\ Head(pattern) = "^" THEN Tail(pattern)
               ELSE pattern
    IN  /\ Len(lit) <= Len(string)
        /\ SubSeq(string, 1, Len(lit)) = lit

\* the comparison with >= and <= in place of > and <
compare_inclusive(operator, have, want) ==
    \/ (operator = "GreaterThan" /\ have >= want)
    \/ (operator = "LessThan" /\ have <= want)

\* lines 99-100, on the two int() values
compare(operator, have, want) ==
    \/ (operator = "GreaterThan" /\ have > want)
    \/ (operator = "LessThan" /\ have < want)

\* Requirement.matches: "True" / "False" for a truthy / falsy return value,
\* "ValueError" when int() of the candidate value raises
Requirement_matches(r, m) ==
    LET tf(b) == IF b THEN "True" ELSE "False"
        Compare(have, want) ==
            IF ~have.ok THEN "ValueError"
            ELSE tf(compare(r.operator, have.val, want.val))
    IN
    IF r.operator \in {"In", "Equals"}
    THEN IF r.key \notin DOMAIN m THEN "False"
         ELSE tf(has_value(r, m[r.key]))
    ELSE IF r.operator \in {"NotIn", "NotEquals"}
    THEN IF r.key \notin DOMAIN m THEN "True"
         ELSE tf(~has_value(r, m[r.key]))
    ELSE IF r.operator = "Exists" THEN tf(r.key \in DOMAIN m)
    ELSE IF r.operator = "DoesNotExist" THEN tf(r.key \notin DOMAIN m)
    ELSE IF r.operator = "Regex"
    THEN tf(r.key \in DOMAIN m /\ re_match(r.values[1], m[r.key]))
    ELSE IF r.operator \in {"GreaterThan", "LessThan"}
    THEN IF r.key \notin DOMAIN m THEN "False"
         ELSE Compare(int(m[r.key]), int(r.values[1]))
    ELSE "False"

-----------------------------------------------------------------------------
(* Parser.  Every operator takes the token list and Parser.position and    *)
(* returns the new position and err: "none", or the exception that         *)
(* propagates ("SyntaxError" for the parser's own raise statements,        *)
(* "ValidationError" for Requirement.__init__, "IndexError" for an index   *)
(* past the end of scanned_items).                                         *)

\* the token left as the lexer gave it
InContext_unconverted(tok, context) == tok

\* the token as the context shows it (lines 217-219 and 225-227)
InContext(tok, context) ==
    IF context = "Values" /\ tok \in {"InToken", "NotInToken"}
    THEN "IdentifierToken" ELSE tok

lookahead(items, p, context) ==
    IF p + 1 > Len(items)
    THEN [err |-> "IndexError", tok |-> "None", lit |-> <<>>]
    ELSE [err |-> "none", tok |-> InContext(items[p + 1].tok, context),
          lit |-> items[p + 1].literal]

\* consume without the context's conversion of `in` and `notin`
consume_unconverted(items, p, context) ==
    IF p + 1 > Len(items)
    THEN [err |-> "IndexError", tok |-> "None", lit |-> <<>>,
          position |-> p + 1]
    ELSE [err |-> "none", tok |-> items[p + 1].tok,
          lit |-> items[p + 1].literal, position |-> p + 1]

consume(items, p, context) ==
    IF p + 1 > Len(items)
    THEN [err |-> "IndexError", tok |-> "None", lit |-> <<>>,
          position |-> p + 1]
    ELSE [err |-> "none", tok |-> InContext(items[p + 1].tok, context),
          lit |-> items[p + 1].literal, position |-> p + 1]

parse_key_and_infer_operator(items, p) ==
    LET bad(e, q) == [err |-> e, key |-> <<>>, operator |-> "None",
                      position |-> q]
        Infer(neg, c, la) ==
            IF la.err # "none" THEN bad(la.err, c.position)
            ELSE [err |-> "none", key |-> c.lit, position |-> c.position,
                  operator |->
                      IF neg THEN "DoesNotExist"
                      ELSE IF la.tok \in {"EndOfStringToken", "CommaToken"}
                           THEN "Exists" ELSE "None"]
        Key(neg, c) ==
            IF c.err # "none" THEN bad(c.err, c.position)
            ELSE IF c.tok # "IdentifierToken"
                 THEN bad("SyntaxError", c.position)
                 ELSE Infer(neg, c, lookahead(items, c.position, "Values"))
        First(c1) ==
            IF c1.err = "none" /\ c1.tok = "DoesNotExistToken"
            THEN Key(TRUE, consume(items, c1.position, "Values"))
            ELSE Key(FALSE, c1)
    IN  First(consume(items, p, "Values"))

parse_operator(items, p) ==
    LET Op(tok) == CASE tok = "InToken" -> "In"
                     [] tok = "EqualsToken" -> "Equals"
                     [] tok = "GreaterThanToken" -> "GreaterThan"
                     [] tok = "LessThanToken" -> "LessThan"
                     [] tok = "NotInToken" -> "NotIn"
                     [] tok = "NotEqualsToken" -> "NotEquals"
                     [] tok = "RegexToken" -> "Regex"
                     [] OTHER -> "None"
        Map(c, op) ==
            IF c.err # "none"
            THEN [err |-> c.err, op |-> "None", position |-> c.position]
            ELSE IF op = "None"
            THEN [err |-> "SyntaxError", op |-> "None", position |-> c.position]
            ELSE [err |-> "none", op |-> op, position |-> c.position]
        Tok(c) == Map(c, Op(c.tok))
    IN  Tok(consume(items, p, "KeyAndOperator"))

\* one pass of the while loop per call; set is the StringSet s
RECURSIVE parse_identifiers_list(_, _, _)
parse_identifiers_list(items, p, set) ==
    LET out(e, v, q) == [err |-> e, values |-> v, position |-> q]
        Pass(c, la) ==
            IF c.err # "none" THEN out(c.err, set, c.position)
            ELSE IF c.tok = "IdentifierToken"
            THEN IF la.err # "none"
                 THEN out(la.err, insert(set, c.lit), c.position)
                 ELSE IF la.tok = "CommaToken"
                 THEN parse_identifiers_list(
                          items, c.position,
                          insert(insert(set, c.lit), <<>>))
                 ELSE IF la.tok = "ClosedParToken"
                 THEN out("none", insert(set, c.lit), c.position)
                 ELSE out("SyntaxError", insert(set, c.lit), c.position)
            ELSE IF c.tok = "CommaToken"
            THEN IF la.err # "none" THEN out(la.err, set, c.position)
                 ELSE IF la.tok = "ClosedParToken"
                 THEN out("none", insert(set, <<>>), c.position)
                 ELSE parse_identifiers_list(
                          items,
                          IF la.tok = "CommaToken"
                          THEN consume(items, c.position, "Values").position
                          ELSE c.position,
                          IF la.tok = "CommaToken" THEN insert(set, <<>>)
                          ELSE set)
            ELSE out("none", set, c.position)
        Tok(c) == Pass(c, lookahead(items, c.position, "Values"))
    IN  Tok(consume(items, p, "Values"))

parse_values(items, p) ==
    LET out(e, v, q) == [err |-> e, values |-> v, position |-> q]
        Close(l, c2) ==
            IF c2.err # "none" THEN out(c2.err, l.values, c2.position)
            ELSE IF c2.tok # "ClosedParToken"
            THEN out("SyntaxError", l.values, c2.position)
            ELSE out("none", l.values, c2.position)
        List(l) ==
            IF l.err # "none" THEN out(l.err, l.values, l.position)
            ELSE Close(l, consume(items, l.position, "Values"))
        Empty(c2) == out(c2.err, insert(<<>>, <<>>), c2.position)
        Open(c, la) ==
            IF c.err # "none" THEN out(c.err, <<>>, c.position)
            ELSE IF c.tok # "OpenParToken"
            THEN out("SyntaxError", <<>>, c.position)
            ELSE IF la.err # "none" THEN out(la.err, <<>>, c.position)
            ELSE IF la.tok \in {"IdentifierToken", "CommaToken"}
            THEN List(parse_identifiers_list(items, c.position, <<>>))
            ELSE IF la.tok = "ClosedParToken"
            THEN Empty(consume(items, c.position, "Values"))
            ELSE out("SyntaxError", <<>>, c.position)
        Tok(c) == Open(c, lookahead(items, c.position, "Values"))
    IN  Tok(consume(items, p, "Values"))

parse_exact_values(items, p) ==
    LET out(e, v, q) == [err |-> e, values |-> v, position |-> q]
        Value(c) ==
            IF c.err # "none" THEN out(c.err, <<>>, c.position)
            ELSE IF c.tok = "IdentifierToken"
            THEN out("none", insert(<<>>, c.lit), c.position)
            ELSE out("SyntaxError", <<>>, c.position)
        Peek(la) ==
            IF la.err # "none" THEN out(la.err, <<>>, p)
            ELSE IF la.tok \in {"EndOfStringToken", "CommaToken"}
            THEN out("none", insert(<<>>, <<>>), p)
            ELSE Value(consume(items, p, "Values"))
    IN  Peek(lookahead(items, p, "Values"))

NoReq == [key |-> <<>>, operator |-> "None", values |-> <<>>]

parse_requirement(items, p) ==
    LET out(e, r, q) == [err |-> e, req |-> r, position |-> q]
        New(r, q) == out(r.err, IF r.err = "none" THEN r.req ELSE NoReq, q)
        Values(k, o, v) ==
            IF v.err # "none" THEN out(v.err, NoReq, v.position)
            ELSE New(Requirement(k.key, o.op, v.values), v.position)
        Op(k, o) ==
            IF o.err # "none" THEN out(o.err, NoReq, o.position)
            ELSE Values(k, o,
                        IF o.op \in {"In", "NotIn"}
                        THEN parse_values(items, o.position)
                        ELSE parse_exact_values(items, o.position))
        Key(k) ==
            IF k.err # "none" THEN out(k.err, NoReq, k.position)
            ELSE IF k.operator \in {"Exists", "DoesNotExist"}
            THEN New(Requirement(k.key, k.operator, <<>>), k.position)
            ELSE Op(k, parse_operator(items, k.position))
    IN  Key(parse_key_and_infer_operator(items, p))

\* a pass that lets any token follow the comma
parse_pass_any_after_comma(items, p, reqs) ==
    LET out(ret, e, rs, q) ==
            [ret |-> ret, err |-> e, requirements |-> rs, position |-> q]
        Comma(rs, q, l2) ==
            IF l2.err # "none" THEN out("raise", l2.err, rs, q)
            ELSE out("continue", "none", rs, q)
        After(rs, c) ==
            IF c.err # "none" THEN out("raise", c.err, rs, c.position)
            ELSE IF c.tok = "EndOfStringToken"
            THEN out("return", "none", rs, c.position)
            ELSE IF c.tok = "CommaToken"
            THEN Comma(rs, c.position, lookahead(items, c.position, "Values"))
            ELSE out("raise", "SyntaxError", rs, c.position)
        Req(r) ==
            IF r.err # "none" THEN out("raise", r.err, reqs, r.position)
            ELSE After(Append(reqs, r.req),
                       consume(items, r.position, "Values"))
        Peek(la) ==
            IF la.err # "none" THEN out("raise", la.err, reqs, p)
            ELSE IF la.tok \in {"IdentifierToken", "DoesNotExistToken"}
            THEN Req(parse_requirement(items, p))
            ELSE IF la.tok = "EndOfStringToken"
            THEN out("return", "none", reqs, p)
            ELSE out("raise", "SyntaxError", reqs, p)
    IN  Peek(lookahead(items, p, "Values"))

\* one pass of the while loop of Parser.parse: ret is "continue", "return"
\* or "raise"
parse_pass(items, p, reqs) ==
    LET out(ret, e, rs, q) ==
            [ret |-> ret, err |-> e, requirements |-> rs, position |-> q]
        Comma(rs, q, l2) ==
            IF l2.err # "none" THEN out("raise", l2.err, rs, q)
            ELSE IF l2.tok \notin {"IdentifierToken", "DoesNotExistToken"}
            THEN out("raise", "SyntaxError", rs, q)
            ELSE out("continue", "none", rs, q)
        After(rs, c) ==
            IF c.err # "none" THEN out("raise", c.err, rs, c.position)
            ELSE IF c.tok = "EndOfStringToken"
            THEN out("return", "none", rs, c.position)
            ELSE IF c.tok = "CommaToken"
            THEN Comma(rs, c.position, lookahead(items, c.position, "Values"))
            ELSE out("raise", "SyntaxError", rs, c.position)
        Req(r) ==
            IF r.err # "none" THEN out("raise", r.err, reqs, r.position)
            ELSE After(Append(reqs, r.req),
                       consume(items, r.position, "Values"))
        Peek(la) ==
            IF la.err # "none" THEN out("raise", la.err, reqs, p)
            ELSE IF la.tok \in {"IdentifierToken", "DoesNotExistToken"}
            THEN Req(parse_requirement(items, p))
            ELSE IF la.tok = "EndOfStringToken"
            THEN out("return", "none", reqs, p)
            ELSE out("raise", "SyntaxError", reqs, p)
    IN  Peek(lookahead(items, p, "Values"))

-----------------------------------------------------------------------------
(* items.sort(key=lambda x: x.key): a stable sort by str comparison.       *)

RECURSIVE StrLess(_, _)
StrLess(a, b) ==
    IF b = <<>> THEN FALSE
    ELSE IF a = <<>> THEN TRUE
    ELSE IF CharCode(Head(a)) < CharCode(Head(b)) THEN TRUE
    ELSE IF CharCode(Head(a)) > CharCode(Head(b)) THEN FALSE
    ELSE StrLess(Tail(a), Tail(b))

\* r goes after every element whose key is not greater than its own
InsertByKey(sorted, r) ==
    LET n == IF \E i \in 1..Len(sorted) : StrLess(r.key, sorted[i].key)
             THEN (CHOOSE i \in 1..Len(sorted) :
                       /\ StrLess(r.key, sorted[i].key)
                       /\ \A j \in 1..(i - 1) : ~StrLess(r.key, sorted[j].key))
                  - 1
             ELSE Len(sorted)
    IN  SubSeq(sorted, 1, n) \o <<r>> \o SubSeq(sorted, n + 1, Len(sorted))

\* parse() without its items.sort
sort_by_key_skipped(items) == items

RECURSIVE sort_by_key(_)
sort_by_key(items) ==
    IF items = <<>> THEN <<>>
    ELSE InsertByKey(sort_by_key(SubSeq(items, 1, Len(items) - 1)),
                     items[Len(items)])

-----------------------------------------------------------------------------
(* Selector.                                                               *)

NoSelector == [made |-> FALSE, requirements |-> <<>>]

\* Selector.__init__
Selector(reqs) == [made |-> TRUE, requirements |-> reqs]

\* a pass that goes on to the next requirement whatever r.matches returned
matches_pass_ignoring(res) == IF res = "ValueError" THEN "ValueError" ELSE "next"

\* a pass that takes an exception of r.matches for "no match"
matches_pass_swallowing(res) == IF res = "True" THEN "next" ELSE "False"

\* one pass of the for loop of Selector.matches on what r.matches(kvs) gave:
\* the exception propagates, a falsy value returns False, else the loop
\* goes on
matches_pass(res) ==
    IF res = "ValueError" THEN "ValueError"
    ELSE IF res = "False" THEN "False"
    ELSE "next"

\* how a pass of Parser.parse ends parse(): a partial Selector on an error
parse_end_partial(r) ==
    IF r.ret = "continue"
    THEN [pc |-> "parse", err |-> "none", requirements |-> r.requirements,
          selector |-> NoSelector]
    ELSE [pc |-> "done", err |-> "none",
          requirements |-> sort_by_key(r.requirements),
          selector |-> Selector(sort_by_key(r.requirements))]

\* how a pass of Parser.parse ends parse() (lines 371-375): on return the
\* list is sorted in place and wrapped in the Selector, an exception
\* propagates and nothing is returned
parse_end(r) ==
    LET Sorted(sorted) ==
            [pc |-> "done", err |-> "none", requirements |-> sorted,
             selector |-> Selector(sorted)]
    IN  IF r.ret = "continue"
        THEN [pc |-> "parse", err |-> "none", requirements |-> r.requirements,
              selector |-> NoSelector]
        ELSE IF r.ret = "return" THEN Sorted(sort_by_key(r.requirements))
        ELSE [pc |-> "error", err |-> r.err, requirements |-> r.requirements,
              selector |-> NoSelector]

-----------------------------------------------------------------------------
(* parse(text) run to its end in one evaluation: the same passes the       *)
(* actions below take one at a time.                                       *)

\* Parser.scan
RECURSIVE scan(_, _, _)
scan(str, p, items) ==
    LET Lexed(l) ==
            IF l.tok = "AttributeError"
            THEN [err |-> "AttributeError", items |-> items]
            ELSE IF l.tok = "EndOfStringToken"
            THEN [err |-> "none",
                  items |-> Append(items, ScannedItem(l.tok, l.literal))]
            ELSE scan(str, l.pos,
                      Append(items, ScannedItem(l.tok, l.literal)))
    IN  Lexed(lex(str, p))

\* Parser.parse after scan, and the end of parse()
RECURSIVE parse_loop(_, _, _)
parse_loop(items, p, reqs) ==
    LET Ended(r, e) ==
            IF e.pc = "parse"
            THEN parse_loop(items, r.position, r.requirements)
            ELSE [err |-> e.err, selector |-> e.selector]
        Passed(r) == Ended(r, parse_end(r))
    IN  Passed(parse_pass(items, p, reqs))

\* parse(selector): err and the Selector returned (none when err is set)
parse(text) ==
    LET Scanned(sc) ==
            IF sc.err # "none" THEN [err |-> sc.err, selector |-> NoSelector]
            ELSE parse_loop(sc.items, 0, <<>>)
    IN  Scanned(scan(text, 0, <<>>))

-----------------------------------------------------------------------------
(* The checked inputs.                                                     *)

Kx == <<"x">>
Ky == <<"y">>

\* requirement fragments, well formed and not
SimpleFrags ==
    { <<"x">>, <<"!", "x">>, <<"x", "=", "a">>, <<"x", "!", "=", "a">>,
      <<"x", ">", "1">>, <<"x", "<", "1">>,
      <<"y", "=", "b">>, <<"!", "y">>, <<"y", ">", "1">>,
      <<"x", ">", "a">>, <<"x", "=">>, <<"=", "a">>,
      <<"x", " ", "r", "e", " ", "^", "a">>,
      <<"n", "o", "t", "i", "n", "=", "i", "n">>,
      <<"y", " ", "i", "n", " ", "(", "a", ",", " ", "b", ")">> }

RECURSIVE JoinWith(_, _)
JoinWith(parts, sep) ==
    IF parts = <<>> THEN <<>>
    ELSE IF Len(parts) = 1 THEN parts[1]
    ELSE parts[1] \o sep \o JoinWith(Tail(parts), sep)

SeqsUpTo(S, n) == UNION {[1..k -> S] : k \in 0..n}

\* up to MaxReqs fragments separated by ","
SimpleTexts == {JoinWith(fs, <<",">>) : fs \in SeqsUpTo(SimpleFrags, MaxReqs)}

\* items of a value list; the empty item gives a leading, trailing or
\* doubled comma
ListItems == {<<"a">>, <<"b">>, <<>>}

IN_ == <<"i", "n">>
NOTIN_ == <<"n", "o", "t", "i", "n">>

\* the text `x <op> (<item>, <item>, ...<close>`
ListText(op, items, close) ==
    <<"x", " ">> \o op \o <<" ", "(">> \o JoinWith(items, <<",", " ">>)
    \o close

\* x in (...) and x notin (...), closed or left unterminated
ListTexts ==
    { ListText(op, items, close) :
        op \in {IN_, NOTIN_},
        items \in SeqsUpTo(ListItems, MaxItems),
        close \in {<<")">>, <<>>} }

\* what may follow a requirement: nothing, a comma and a requirement, or
\* something else
SeparatorTexts ==
    { <<"x", ",">>, <<"x", ",", ",", "y">>, <<"x", "=", "a", ",">>,
      <<"x", "=", "a", " ", "b">>, <<"x", "=", "a", ")">>,
      <<"x", ",", ")">>, <<"x", ",", "r", "e">>, <<"x", ",", " ", "!", "y">>,
      <<"x", " ", "i", "n", " ", "(", "a", ")", ",">>,
      <<"x", " ", "i", "n", " ", "(", "a", ")", " ", "y">> }

\* the words `in` and `notin` as key, as operator and as value
KeywordTexts ==
    { IN_, NOTIN_, <<"x", ",">> \o IN_, IN_ \o <<"=">> \o NOTIN_,
      IN_ \o <<" ">> \o IN_ \o <<" ", "(">> \o IN_ \o <<")">>,
      IN_ \o <<" ">> \o NOTIN_ \o <<" ", "(">> \o NOTIN_ \o <<")">>,
      <<"x", " ">> \o IN_ \o <<" ">> \o IN_,
      <<"x", "!", "=">> \o NOTIN_ }

Texts == SimpleTexts \cup ListTexts \cup SeparatorTexts \cup KeywordTexts

\* candidate maps over the keys x and y
XVals == {<<>>, <<"a">>, <<"b">>, <<"0">>, <<"1">>, <<"2">>}
YVals == {<<"b">>, <<"2">>}

Maps ==
    { mx @@ my :
        mx \in {<<>>} \cup {Kx :> v : v \in XVals},
        my \in {<<>>} \cup {Ky :> v : v \in YVals} }

\* candidate maps over the keys `in` and `notin`
KeywordMaps ==
    { NOTIN_ :> IN_, NOTIN_ :> <<"a">>, IN_ :> NOTIN_, IN_ :> IN_,
      (IN_ :> IN_) @@ (Kx :> <<"a">>) }

\* arguments of a direct Requirement(key, operator, values)
NewOperators == Operators \cup {"Unrecognized"}
NewValues == SeqsUpTo({<<"a">>, <<"b">>, <<"1">>}, MaxVals)

-----------------------------------------------------------------------------
(* The state machine.                                                      *)

Init ==
    /\ pc = "idle"
    /\ s = <<>>
    /\ pos = 0
    /\ scanned_items = <<>>
    /\ position = 0
    /\ requirements = <<>>
    /\ selector = NoSelector
    /\ err = "none"
    /\ kvs = <<>>
    /\ mi = 0
    /\ mres = "idle"
    /\ lpc = "none"
    /\ cur_char = NUL
    /\ cur_buffer = <<>>
    /\ last_scanned_item = NoItem
    /\ ltok = "None"
    /\ llit = <<>>
    /\ lstart = 0
    /\ lastop = "none"
    /\ kvs2 = <<>>
    /\ mi2 = 0
    /\ mres2 = "idle"

\* parse(selector): p = Parser(Lexer(selector))
ParseCall(text) ==
    /\ pc = "idle"
    /\ pc' = "scan"
    /\ s' = text
    /\ UNCHANGED <<pos, scanned_items, position, requirements, selector, err,
                   kvs, mi, mres>>
    /\ UNCHANGED <<lexvars, callvars2>>

\* one pass of the loop of Parser.scan
ScanStep ==
    /\ pc = "scan"
    /\ LET Lexed(l) ==
       IF l.tok = "AttributeError"
       THEN /\ pc' = "error"
            /\ err' = "AttributeError"
            /\ pos' = l.pos
            /\ UNCHANGED scanned_items
       ELSE /\ scanned_items' = Append(scanned_items,
                                       ScannedItem(l.tok, l.literal))
            /\ pos' = l.pos
            /\ pc' = IF l.tok = "EndOfStringToken" THEN "parse" ELSE "scan"
            /\ UNCHANGED err
       IN Lexed(lex(s, pos))
    /\ UNCHANGED <<s, position, requirements, selector, kvs, mi, mres>>
    /\ UNCHANGED <<lexvars, callvars2>>

\* one pass of the loop of Parser.parse; when it returns, parse() sorts the
\* list in place and wraps it in the Selector
ParseStep ==
    /\ pc = "parse"
    /\ LET Ended(r, e) ==
               /\ position' = r.position
               /\ pc' = e.pc
               /\ err' = e.err
               /\ requirements' = e.requirements
               /\ selector' = e.selector
           Passed(r) == Ended(r, parse_end(r))
       IN  Passed(parse_pass(scanned_items, position, requirements))
    /\ UNCHANGED <<s, pos, scanned_items, kvs, mi, mres>>
    /\ UNCHANGED <<lexvars, callvars2>>

\* Selector([Requirement(key, operator, values)]) built by the caller
Construct(key, operator, values) ==
    /\ pc = "idle"
    /\ LET Made(r) ==
       IF r.err = "none"
       THEN /\ pc' = "built"
            /\ selector' = Selector(<<r.req>>)
            /\ UNCHANGED err
       ELSE /\ pc' = "error"
            /\ err' = r.err
            /\ UNCHANGED selector
       IN Made(Requirement(key, operator, values))
    /\ UNCHANGED <<s, pos, scanned_items, position, requirements, kvs, mi,
                   mres>>
    /\ UNCHANGED <<lexvars, callvars2>>

\* Selector.matches(kvs) is called
MatchCall(m) ==
    /\ pc \in {"done", "built"}
    /\ mres # "running"
    /\ kvs' = m
    /\ mi' = 1
    /\ mres' = "running"
    /\ UNCHANGED <<pc, s, pos, scanned_items, position, requirements,
                   selector, err>>
    /\ UNCHANGED <<lexvars, callvars2>>

\* one pass of the for loop of Selector.matches
MatchStep ==
    /\ mres = "running"
    /\ mi <= Len(selector.requirements)
    /\ LET Matched(out) ==
               IF out = "next" THEN mi' = mi + 1 /\ UNCHANGED mres
               ELSE mres' = out /\ UNCHANGED mi
       IN  Matched(matches_pass(
                       Requirement_matches(selector.requirements[mi], kvs)))
    /\ UNCHANGED <<pc, s, pos, scanned_items, position, requirements,
                   selector, err, kvs>>
    /\ UNCHANGED <<lexvars, callvars2>>

\* the for loop of Selector.matches is exhausted: return True
MatchReturn ==
    /\ mres = "running"
    /\ mi > Len(selector.requirements)
    /\ mres' = "True"
    /\ UNCHANGED <<pc, s, pos, scanned_items, position, requirements,
                   selector, err, kvs, mi>>
    /\ UNCHANGED <<lexvars, callvars2>>

Next ==
    \/ \E text \in Texts : ParseCall(text)
    \/ ScanStep
    \/ ParseStep
    \/ \E operator \in NewOperators, values \in NewValues :
           Construct(Kx, operator, values)
    \/ \E m \in Maps \cup KeywordMaps : MatchCall(m)
    \/ MatchStep
    \/ MatchReturn

Spec == Init /\ [][Next]_vars

-----------------------------------------------------------------------------
(* Two threads call matches on one Selector.  Each call has its own kvs    *)
(* and its own iterator over self.requirements; the Selector is the only   *)
(* object they share.                                                      *)

\* Selector.matches(kvs) run alone, from requirement i on
RECURSIVE matches_from(_, _, _)
matches_from(reqs, m, i) ==
    LET Passed(out) == IF out = "next" THEN matches_from(reqs, m, i + 1)
                       ELSE out
    IN  IF i > Len(reqs) THEN "True"
        ELSE Passed(matches_pass(Requirement_matches(reqs[i], m)))

Selector_matches(sel, m) == matches_from(sel.requirements, m, 1)

\* requirement fragments of the shared selectors
SharedFrags ==
    { <<"x", "=", "a">>, <<"x", ">", "1">>, <<"!", "y">>, <<"y", "=", "b">>,
      <<"x", ">", "a">> }

SharedTexts == {JoinWith(fs, <<",">>) : fs \in SeqsUpTo(SharedFrags, MaxReqs)}

\* candidate maps of the concurrent calls
SharedMaps ==
    { <<>>, Kx :> <<"a">>, Kx :> <<"2">>, Ky :> <<"b">>,
      (Kx :> <<"a">>) @@ (Ky :> <<"b">>), (Kx :> <<"2">>) @@ (Ky :> <<"b">>) }

\* the second thread calls Selector.matches(kvs)
MatchCall2(m) ==
    /\ pc \in {"done", "built"}
    /\ mres2 # "running"
    /\ kvs2' = m
    /\ mi2' = 1
    /\ mres2' = "running"
    /\ UNCHANGED <<pc, s, pos, scanned_items, position, requirements,
                   selector, err, kvs, mi, mres>>
    /\ UNCHANGED lexvars

\* a pass of the second thread that takes the first thread's place in the
\* requirement sequence
MatchStep2_shared_index ==
    /\ mres2 = "running"
    /\ mi2 <= Len(selector.requirements)
    /\ LET Matched(out) ==
               IF out = "next" THEN mi2' = mi2 + 1 /\ UNCHANGED mres2
               ELSE mres2' = out /\ UNCHANGED mi2
       IN  Matched(matches_pass(
                       Requirement_matches(
                           selector.requirements[
                               IF mi \in 1..Len(selector.requirements)
                               THEN mi ELSE mi2],
                           kvs2)))
    /\ UNCHANGED <<pc, s, pos, scanned_items, position, requirements,
                   selector, err, kvs, mi, mres, kvs2>>
    /\ UNCHANGED lexvars

\* one pass of the for loop of Selector.matches in the second thread
MatchStep2 ==
    /\ mres2 = "running"
    /\ mi2 <= Len(selector.requirements)
    /\ LET Matched(out) ==
               IF out = "next" THEN mi2' = mi2 + 1 /\ UNCHANGED mres2
               ELSE mres2' = out /\ UNCHANGED mi2
       IN  Matched(matches_pass(
                       Requirement_matches(selector.requirements[mi2], kvs2)))
    /\ UNCHANGED <<pc, s, pos, scanned_items, position, requirements,
                   selector, err, kvs, mi, mres, kvs2>>
    /\ UNCHANGED lexvars

\* the for loop of the second thread is exhausted: return True
MatchReturn2 ==
    /\ mres2 = "running"
    /\ mi2 > Len(selector.requirements)
    /\ mres2' = "True"
    /\ UNCHANGED <<pc, s, pos, scanned_items, position, requirements,
                   selector, err, kvs, mi, mres, kvs2, mi2>>
    /\ UNCHANGED lexvars

NextShared ==
    \/ \E text \in SharedTexts : ParseCall(text)
    \/ ScanStep
    \/ ParseStep
    \/ \E m \in SharedMaps : MatchCall(m)
    \/ MatchStep
    \/ MatchReturn
    \/ \E m \in SharedMaps : MatchCall2(m)
    \/ MatchStep2
    \/ MatchReturn2

SpecShared == Init /\ [][NextShared]_vars

-----------------------------------------------------------------------------
(* A Lexer used on its own, as TestLexer does: lex is called again and     *)
(* again, and every call runs one cursor operation (read or unread) per    *)
(* step.  lpc is the place in the code: "call" between two calls, "skip"   *)
(* in skip_whitespaces, "ident", "idunread", "idret" in                    *)
(* scan_id_or_keyword, "special", "ssunread", "ssret" in                   *)
(* scan_special_symbol, "raised" after an exception.                       *)

\* symbol runs besides those of the selector texts
SymbolTexts ==
    { <<"(">>, <<")">>, <<"<">>, <<"!", "=">>, <<"!", "!">>, <<">", "=">>,
      <<"=", "=">>, <<"!", "=", "=">>, <<"(", ")">>, <<" ", " ", ",">>,
      <<"\t", "\n", "!", "=", "\r", " ">>,
      <<"!", "=", " ", "(", ")", ",", " ", "=", " ", "n", "o", "t", "i", "n">> }

LexerTexts == Texts \cup SymbolTexts

\* what the steps of a lex call leave alone
outside_lexer ==
    <<pc, s, scanned_items, position, requirements, selector, err, kvs, mi,
      mres, callvars2>>

\* char = self.read(), noted as the latest cursor operation
ReadChar ==
    LET Got(r) ==
            /\ cur_char' = r.b
            /\ pos' = r.pos
            /\ lastop' = IF r.pos > pos THEN "read" ELSE "eof"
    IN  Got(read(s, pos))

\* self.unread(), noted as the latest cursor operation
Unread ==
    /\ pos' = unread(pos)
    /\ lastop' = "unread"

\* l = Lexer(text, 0)
LexerNew(text) ==
    /\ pc = "idle"
    /\ pc' = "lexer"
    /\ s' = text
    /\ lpc' = "call"
    /\ UNCHANGED <<pos, scanned_items, position, requirements, selector, err,
                   kvs, mi, mres, callvars2>>
    /\ UNCHANGED <<cur_char, cur_buffer, last_scanned_item, ltok, llit, lstart,
                   lastop>>

\* lex is called: the self.read() of line 192
LexCall ==
    /\ pc = "lexer" /\ lpc = "call"
    /\ ReadChar
    /\ lstart' = pos
    /\ lpc' = "skip"
    /\ UNCHANGED <<cur_buffer, last_scanned_item, ltok, llit>>
    /\ UNCHANGED outside_lexer

\* skip_whitespaces: char = self.read() while char is whitespace
SkipRead ==
    /\ pc = "lexer" /\ lpc = "skip"
    /\ is_whitespace(cur_char)
    /\ ReadChar
    /\ UNCHANGED <<lpc, cur_buffer, last_scanned_item, ltok, llit, lstart>>
    /\ UNCHANGED outside_lexer

\* lex, lines 193-194: return Token.EndOfStringToken, ""
LexEnd ==
    /\ pc = "lexer" /\ lpc = "skip"
    /\ ~is_whitespace(cur_char)
    /\ cur_char = NUL
    /\ ltok' = "EndOfStringToken"
    /\ llit' = <<>>
    /\ lpc' = "call"
    /\ UNCHANGED <<pos, cur_char, cur_buffer, last_scanned_item, lstart, lastop>>
    /\ UNCHANGED outside_lexer

\* lex, lines 195-199: self.unread() and the entry of the scan method
LexUnread ==
    /\ pc = "lexer" /\ lpc = "skip"
    /\ ~is_whitespace(cur_char)
    /\ cur_char # NUL
    /\ Unread
    /\ cur_buffer' = <<>>
    /\ last_scanned_item' = NoItem
    /\ lpc' = IF is_special_symbol(cur_char) THEN "special" ELSE "ident"
    /\ UNCHANGED <<cur_char, ltok, llit, lstart>>
    /\ UNCHANGED outside_lexer

\* scan_id_or_keyword, lines 155-162: one pass of the while loop up to the
\* unread
IdRead ==
    /\ pc = "lexer" /\ lpc = "ident"
    /\ ReadChar
    /\ LET Got(r) ==
               IF r.b = NUL
               THEN lpc' = "idret" /\ UNCHANGED cur_buffer
               ELSE IF is_special_symbol(r.b) \/ is_whitespace(r.b)
               THEN lpc' = "idunread" /\ UNCHANGED cur_buffer
               ELSE cur_buffer' = Append(cur_buffer, r.b) /\ UNCHANGED lpc
       IN  Got(read(s, pos))
    /\ UNCHANGED <<last_scanned_item, ltok, llit, lstart>>
    /\ UNCHANGED outside_lexer

\* scan_id_or_keyword, lines 159-160: self.unread(); break
IdUnread ==
    /\ pc = "lexer" /\ lpc = "idunread"
    /\ Unread
    /\ lpc' = "idret"
    /\ UNCHANGED <<cur_char, cur_buffer, last_scanned_item, ltok, llit, lstart>>
    /\ UNCHANGED outside_lexer

\* scan_id_or_keyword, lines 163-165
IdReturn ==
    /\ pc = "lexer" /\ lpc = "idret"
    /\ ltok' = IF cur_buffer \in DOMAIN token_map
               THEN token_map[cur_buffer] ELSE "IdentifierToken"
    /\ llit' = cur_buffer
    /\ lpc' = "call"
    /\ UNCHANGED <<pos, cur_char, cur_buffer, last_scanned_item, lstart, lastop>>
    /\ UNCHANGED outside_lexer

\* scan_special_symbol, lines 171-186: one pass of the while loop up to the
\* unread; line 178 reads last_scanned_item.tok, an AttributeError while it
\* is None
SsRead ==
    /\ pc = "lexer" /\ lpc = "special"
    /\ ReadChar
    /\ LET Extended(buf) ==
               /\ cur_buffer' = buf
               /\ IF buf \in DOMAIN token_map
                  THEN /\ last_scanned_item' = ScannedItem(token_map[buf], buf)
                       /\ UNCHANGED <<lpc, ltok>>
                  ELSE IF last_scanned_item = NoItem
                  THEN /\ lpc' = "raised" /\ ltok' = "AttributeError"
                       /\ UNCHANGED last_scanned_item
                  ELSE /\ lpc' = "ssunread"
                       /\ UNCHANGED <<last_scanned_item, ltok>>
           Got(r) ==
               IF r.b = NUL
               THEN /\ lpc' = "ssret"
                    /\ UNCHANGED <<cur_buffer, last_scanned_item, ltok>>
               ELSE IF is_special_symbol(r.b)
               THEN Extended(Append(cur_buffer, r.b))
               ELSE /\ lpc' = "ssunread"
                    /\ UNCHANGED <<cur_buffer, last_scanned_item, ltok>>
       IN  Got(read(s, pos))
    /\ UNCHANGED <<llit, lstart>>
    /\ UNCHANGED outside_lexer

\* scan_special_symbol, lines 179-180, 182-183, 185-186: self.unread(); break
SsUnread ==
    /\ pc = "lexer" /\ lpc = "ssunread"
    /\ Unread
    /\ lpc' = "ssret"
    /\ UNCHANGED <<cur_char, cur_buffer, last_scanned_item, ltok, llit, lstart>>
    /\ UNCHANGED outside_lexer

\* scan_special_symbol, lines 187-189
SsReturn ==
    /\ pc = "lexer" /\ lpc = "ssret"
    /\ IF last_scanned_item = NoItem
       THEN lpc' = "raised" /\ ltok' = "AttributeError" /\ UNCHANGED llit
       ELSE IF last_scanned_item.tok = "UnknownToken"
       THEN lpc' = "call" /\ ltok' = "UnknownToken" /\ llit' = cur_buffer
       ELSE /\ lpc' = "call"
            /\ ltok' = last_scanned_item.tok
            /\ llit' = last_scanned_item.literal
    /\ UNCHANGED <<pos, cur_char, cur_buffer, last_scanned_item, lstart, lastop>>
    /\ UNCHANGED outside_lexer

NextLex ==
    \/ \E text \in LexerTexts : LexerNew(text)
    \/ LexCall
    \/ SkipRead
    \/ LexEnd
    \/ LexUnread
    \/ IdRead
    \/ IdUnread
    \/ IdReturn
    \/ SsRead
    \/ SsUnread
    \/ SsReturn

SpecLex == Init /\ [][NextLex]_vars

-----------------------------------------------------------------------------
(* Vocabulary of the properties.                                           *)

Reqs == selector.requirements

\* a matches call has ended
Ended == mres \in {"True", "False", "ValueError"}

Range(list) == {list[i] : i \in 1..Len(list)}

\* the distinct elements of a list in first-occurrence order
RECURSIVE Distinct(_)
Distinct(list) ==
    IF list = <<>> THEN <<>>
    ELSE LET front == Distinct(SubSeq(list, 1, Len(list) - 1))
             last  == list[Len(list)]
         IN  IF last \in Range(front) THEN front ELSE Append(front, last)

\* regular value lists: one or more non-empty identifiers
RegularLists == UNION {[1..n -> {<<"a">>, <<"b">>}] : n \in 1..MaxItems}

\* the decimal numerals among the candidate values, with their values
Num == (<<"0">> :> 0) @@ (<<"1">> :> 1) @@ (<<"2">> :> 2)

\* the text cut at the commas outside parentheses
RECURSIVE SplitTop(_, _, _, _)
SplitTop(text, i, depth, cur) ==
    IF i > Len(text) THEN <<cur>>
    ELSE IF text[i] = "," /\ depth = 0
    THEN <<cur>> \o SplitTop(text, i + 1, depth, <<>>)
    ELSE SplitTop(text, i + 1,
                  IF text[i] = "(" THEN depth + 1
                  ELSE IF text[i] = ")" THEN depth - 1 ELSE depth,
                  Append(cur, text[i]))

Bijections(n) ==
    {f \in [1..n -> 1..n] : \A i, j \in 1..n : f[i] = f[j] => i = j}

\* every reordering of the comma-separated requirements of the text
Reorderings(text) ==
    LET parts == SplitTop(text, 1, 0, <<>>) IN
    { JoinWith([i \in 1..Len(parts) |-> parts[f[i]]], <<",">>) :
        f \in Bijections(Len(parts)) }

DistinctKeys(reqs) ==
    \A i, j \in 1..Len(reqs) : reqs[i].key = reqs[j].key => i = j

\* the operator / value-count table
TableOK(r) ==
    CASE r.operator \in {"Exists", "DoesNotExist"} -> Len(r.values) = 0
      [] r.operator \in {"Equals", "NotEquals", "Regex"} -> Len(r.values) = 1
      [] r.operator \in {"In", "NotIn"} -> Len(r.values) >= 1
      [] r.operator \in {"GreaterThan", "LessThan"} ->
             Len(r.values) = 1 /\ int(r.values[1]).ok
      [] OTHER -> FALSE

-----------------------------------------------------------------------------
(* Properties.                                                             *)

\* C1: for a selector returned by parse and a map on which no requirement
\* raises, Selector.matches returns True iff every requirement matches the
\* map; the selector parsed from the empty text has no requirement and never
\* returns anything but True.
C1_MatchesIsConjunction ==
    /\ (pc = "done" /\ Ended
        /\ \A i \in 1..Len(Reqs) : Requirement_matches(Reqs[i], kvs) # "ValueError")
       => /\ mres \in {"True", "False"}
          /\ mres = "True" <=>
                 \A i \in 1..Len(Reqs) : Requirement_matches(Reqs[i], kvs) = "True"
    /\ (pc = "done" /\ s = <<>>)
       => Reqs = <<>> /\ mres \in {"idle", "running", "True"}

\* two requirements, the first matched and the second did not
C1_Witness ==
    pc = "done" /\ Len(Reqs) = 2 /\ mres = "False" /\ mi = 2

\* C2: parsing `x in (v1, ..., vn)` or `x notin (v1, ..., vn)` with a regular
\* list yields one requirement whose values are exactly the distinct
\* identifiers in first-occurrence order.
C2_RegularListValues ==
    \A op \in {IN_, NOTIN_}, items \in RegularLists :
        (s = ListText(op, items, <<")">>) /\ pc \in {"done", "error"})
        => /\ pc = "done"
           /\ Len(Reqs) = 1
           /\ Reqs[1].key = Kx
           /\ Reqs[1].operator = (IF op = IN_ THEN "In" ELSE "NotIn")
           /\ Reqs[1].values = Distinct(items)

\* C3: for `x in (v1, ..., vn)` with a regular list and a map holding x,
\* matches is True iff m[x] is one of the vi; for notin, iff it is none.
C3_RegularListMatches ==
    \A op \in {IN_, NOTIN_}, items \in RegularLists :
        (s = ListText(op, items, <<")">>) /\ pc = "done" /\ Ended
         /\ Kx \in DOMAIN kvs)
        => (mres = "True" <=> ((op = IN_) <=> (kvs[Kx] \in Range(items))))

\* C4: Requirement(k, In/Equals, V).matches(m) is True iff k is in m and
\* m[k] is a member of V; with NotIn/NotEquals iff k is absent or m[k] is no
\* member of V; so In and NotIn over one V are negations of each other when
\* k is present, and False and True when it is absent.
C4_Membership ==
    (pc \in {"built", "done"} /\ Len(Reqs) = 1 /\ Ended)
    => LET r == Reqs[1]
           member == r.key \in DOMAIN kvs /\ kvs[r.key] \in Range(r.values)
       IN  /\ r.operator \in {"In", "Equals"} => (mres = "True" <=> member)
           /\ r.operator \in {"NotIn", "NotEquals"}
              => (mres = "True" <=> ~member)
           /\ r.operator = "In"
              => Requirement_matches([r EXCEPT !.operator = "NotIn"], kvs)
                     = (IF r.key \in DOMAIN kvs /\ mres = "True"
                        THEN "False" ELSE "True")
           /\ r.operator \in {"In", "Equals", "NotIn", "NotEquals"}
              => mres # "ValueError"

\* a directly built In requirement over two values matched on the second
C4_Witness ==
    /\ pc = "built" /\ mres = "True"
    /\ Reqs[1].operator = "In" /\ Len(Reqs[1].values) = 2
    /\ Kx \in DOMAIN kvs /\ kvs[Kx] = Reqs[1].values[2]

\* C5 as claimed: every reordering of the requirements of a valid text
\* parses to the identical requirement sequence.
C5_AnyReorderingSame ==
    (pc = "done" /\ mres = "idle")
    => \A text \in Reorderings(s) :
           parse(text) = [err |-> "none", selector |-> selector]

\* C5, amended: every reordering of the requirements of a valid text whose
\* requirements have pairwise distinct keys parses to the identical
\* requirement sequence.
C5_DistinctKeysReorderingSame ==
    (pc = "done" /\ mres = "idle" /\ DistinctKeys(Reqs))
    => \A text \in Reorderings(s) :
           parse(text) = [err |-> "none", selector |-> selector]

\* a text that names y before x, parsed and sorted
C5_Witness ==
    /\ pc = "done" /\ mres = "idle" /\ Len(Reqs) = 2
    /\ scanned_items[1].literal = Ky
    /\ Reqs[1].key = Kx /\ Reqs[2].key = Ky

\* C6: every Requirement that exists satisfies the operator / value-count
\* table; a construction that violates it fails, so nothing parse returns
\* or collects holds a violating requirement.
C6_RequirementTable ==
    /\ \A i \in 1..Len(requirements) : TableOK(requirements[i])
    /\ \A i \in 1..Len(Reqs) : TableOK(Reqs[i])
    /\ err = "ValidationError" => pc = "error" /\ ~selector.made

\* parse was aborted by Requirement() refusing its values
C6_Witness ==
    pc = "error" /\ err = "ValidationError" /\ scanned_items # <<>>

\* C7: an error met while parsing aborts parse, which then returns no
\* Selector, also after earlier requirements were parsed; "x in (" is a
\* syntax error.
C7_ErrorAbortsParse ==
    /\ err # "none" => pc = "error" /\ ~selector.made /\ mres = "idle"
    /\ selector.made => err = "none" /\ pc \in {"done", "built"}
    /\ (s = ListText(IN_, <<>>, <<>>) /\ pc \in {"done", "error"})
       => pc = "error" /\ err = "SyntaxError"

\* a syntax error after one requirement was parsed
C7_Witness ==
    /\ pc = "error" /\ err = "SyntaxError" /\ Len(requirements) = 1
    /\ ~selector.made

\* C8: `k>n` matches iff k is present and the integer value of m[k] is
\* greater than n, `k<n` iff it is less; both are False when k is absent
\* and when m[k] equals n.
C8_NumericComparison ==
    (pc = "done" /\ Len(Reqs) = 1 /\ Ended
     /\ Reqs[1].operator \in {"GreaterThan", "LessThan"}
     /\ Reqs[1].values[1] \in DOMAIN Num
     /\ (Reqs[1].key \in DOMAIN kvs => kvs[Reqs[1].key] \in DOMAIN Num))
    => LET r == Reqs[1]
           n == Num[r.values[1]]
       IN  IF r.key \notin DOMAIN kvs THEN mres = "False"
           ELSE IF r.operator = "GreaterThan"
           THEN mres = (IF Num[kvs[r.key]] > n THEN "True" ELSE "False")
           ELSE mres = (IF Num[kvs[r.key]] < n THEN "True" ELSE "False")

\* x>1 on a map whose x is 1
C8_Witness ==
    /\ pc = "done" /\ Len(Reqs) = 1 /\ mres = "False"
    /\ Reqs[1].operator = "GreaterThan" /\ Reqs[1].values = << <<"1">> >>
    /\ Kx \in DOMAIN kvs /\ kvs[Kx] = <<"1">>

\* a GreaterThan / LessThan requirement whose key the map holds with a
\* value that is no integer
Unparsable(r) ==
    /\ r.operator \in {"GreaterThan", "LessThan"}
    /\ r.key \in DOMAIN kvs
    /\ kvs[r.key] \notin DOMAIN Num

\* C9 as claimed: with such a requirement in the selector, matches ends in
\* the error whatever the other requirements are.
C9_AlwaysRaises ==
    (pc = "done" /\ Ended /\ \E i \in 1..Len(Reqs) : Unparsable(Reqs[i]))
    => mres = "ValueError"

\* C9, amended: with such a requirement in the selector, matches ends in
\* the error and returns no boolean provided every requirement before it
\* in the selector's sequence matches the map.
C9_RaisesWhenReached ==
    (pc = "done" /\ Ended)
    => \A i \in 1..Len(Reqs) :
           (/\ Unparsable(Reqs[i])
            /\ \A j \in 1..(i - 1) :
                   Requirement_matches(Reqs[j], kvs) = "True")
           => mres = "ValueError"

\* the second requirement raised after the first matched
C9_Witness ==
    /\ pc = "done" /\ Len(Reqs) = 2 /\ mres = "ValueError" /\ mi = 2
    /\ Unparsable(Reqs[2]) /\ ~Unparsable(Reqs[1])

\* C10: a leading comma `(,a)`, a trailing comma `(a,)` and consecutive
\* commas `(a,,b)` do not fail and yield a value set holding the empty
\* string besides the listed identifiers.
C10_IrregularCommas ==
    \A op \in {IN_, NOTIN_},
       items \in { << <<>>, <<"a">> >>, << <<"a">>, <<>> >>,
                   << <<"a">>, <<>>, <<"b">> >> } :
        (s = ListText(op, items, <<")">>) /\ pc \in {"done", "error"})
        => /\ pc = "done"
           /\ Len(Reqs) = 1
           /\ Range(Reqs[1].values) = Range(items)

\* C12: the parser's position never exceeds the number of scanned tokens, no
\* lookahead or consume reads past the end-of-string token, and a value
\* list with its `)` missing, such as "x in (a,", ends in a syntax error
\* and not in an out-of-range access.
C12_NeverPastEndOfString ==
    /\ position <= Len(scanned_items)
    /\ err # "IndexError"
    /\ \A op \in {IN_, NOTIN_}, items \in SeqsUpTo(ListItems, MaxItems) :
           (s = ListText(op, items, <<>>) /\ pc \in {"done", "error"})
           => (pc = "error" /\ err = "SyntaxError")

ParserContexts == {"KeyAndOperator", "Values"}

\* C16: lookahead leaves the position unchanged and returns the token and
\* literal at the current position as the context shows them; consume in
\* the same context returns exactly that token and literal and advances
\* the position by one; the position never decreases.
C16_LookaheadThenConsume ==
    /\ [](\A p \in 0..(Len(scanned_items) - 1), context \in ParserContexts :
            /\ lookahead(scanned_items, p, context).err = "none"
            /\ lookahead(scanned_items, p, context).tok
                   = InContext(scanned_items[p + 1].tok, context)
            /\ lookahead(scanned_items, p, context).lit
                   = scanned_items[p + 1].literal
            /\ consume(scanned_items, p, context).err = "none"
            /\ consume(scanned_items, p, context).tok
                   = lookahead(scanned_items, p, context).tok
            /\ consume(scanned_items, p, context).lit
                   = lookahead(scanned_items, p, context).lit
            /\ consume(scanned_items, p, context).position = p + 1)
    /\ [][position' >= position]_vars

\* the parser stands before a keyword token that the value context shows
\* as an identifier, after a pass that consumed tokens
C16_Witness ==
    /\ pc = "parse"
    /\ 0 < position /\ position < Len(scanned_items)
    /\ scanned_items[position + 1].tok \in {"InToken", "NotInToken"}
    /\ lookahead(scanned_items, position, "Values").tok = "IdentifierToken"
    /\ consume(scanned_items, position, "Values").position = position + 1

\* the parser is about to parse a requirement, and parses it
ParsesRequirement ==
    /\ pc = "parse"
    /\ lookahead(scanned_items, position, "Values").tok
           \in {"IdentifierToken", "DoesNotExistToken"}
    /\ parse_requirement(scanned_items, position).err = "none"

\* the index of the token after that requirement
AfterRequirement == parse_requirement(scanned_items, position).position + 1

\* C17: after each parsed requirement the parser accepts only the end of
\* the text, or a comma followed by an identifier or `!`; anything else,
\* including a comma followed by the end of the text or by another comma,
\* is a syntax error.
C17_AfterRequirement ==
    [][ParsesRequirement =>
        /\ AfterRequirement <= Len(scanned_items)
        /\ IF scanned_items[AfterRequirement].tok = "EndOfStringToken"
           THEN pc' = "done" /\ err' = "none"
           ELSE IF /\ scanned_items[AfterRequirement].tok = "CommaToken"
                   /\ scanned_items[AfterRequirement + 1].tok
                          \in {"IdentifierToken", "DoesNotExistToken",
                               "InToken", "NotInToken"}
           THEN /\ pc' = "parse" /\ err' = "none"
                /\ position' = AfterRequirement
                /\ Len(requirements') = Len(requirements) + 1
           ELSE pc' = "error" /\ err' = "SyntaxError"]_vars

\* a requirement was parsed and the comma after it was followed by the end
\* of the text
C17_Witness ==
    /\ pc = "error" /\ err = "SyntaxError"
    /\ Len(scanned_items) = 3
    /\ scanned_items[1].tok = "IdentifierToken"
    /\ scanned_items[2].tok = "CommaToken"
    /\ scanned_items[3].tok = "EndOfStringToken"
    /\ position = 2

\* the text "notin=in" and the map {"notin": "in"}
NotinEqualsIn == NOTIN_ \o <<"=">> \o IN_
NotinIsIn == NOTIN_ :> IN_

\* C18: the words `in` and `notin` are plain identifiers where a key or a
\* value stands and operators only where an operator stands; "notin=in"
\* parses to the single requirement notin Equals in, which matches the map
\* {"notin": "in"}.
C18_KeywordsByPosition ==
    /\ \A p \in 0..(Len(scanned_items) - 1) :
           (/\ pc \in {"parse", "done", "error"}
            /\ scanned_items[p + 1].tok \in {"InToken", "NotInToken"})
           => /\ parse_key_and_infer_operator(scanned_items, p).err = "none"
              /\ parse_key_and_infer_operator(scanned_items, p).key
                     = scanned_items[p + 1].literal
              /\ parse_exact_values(scanned_items, p).err = "none"
              /\ parse_exact_values(scanned_items, p).values
                     = <<scanned_items[p + 1].literal>>
              /\ parse_operator(scanned_items, p).err = "none"
              /\ parse_operator(scanned_items, p).op
                     = (IF scanned_items[p + 1].tok = "InToken"
                        THEN "In" ELSE "NotIn")
    /\ (s = NotinEqualsIn /\ pc \in {"done", "error"})
       => /\ pc = "done"
          /\ Reqs = <<[key |-> NOTIN_, operator |-> "Equals",
                       values |-> <<IN_>>]>>
          /\ (kvs = NotinIsIn /\ Ended) => mres = "True"

\* "notin=in" was parsed and matched against {"notin": "in"}
C18_Witness ==
    /\ s = NotinEqualsIn /\ pc = "done" /\ Len(Reqs) = 1
    /\ kvs = NotinIsIn /\ mres = "True"

\* C13: once lex has returned the end-of-string token, every later call of
\* lex returns it again with an empty literal and leaves the cursor where
\* it was.
C13_EndOfStringRepeats ==
    /\ [](ltok = "EndOfStringToken" => (lpc \in {"call", "skip"} /\ llit = <<>>))
    /\ [][ltok = "EndOfStringToken"
          => (pos' = pos /\ ltok' = "EndOfStringToken" /\ llit' = <<>>)]_vars

\* a call that began at the end of a text with trailing whitespace has
\* returned the end-of-string token: the call before it had returned it
\* already, having skipped that whitespace
C13_Witness ==
    /\ pc = "lexer" /\ lpc = "call" /\ ltok = "EndOfStringToken"
    /\ Len(s) > 0 /\ is_whitespace(s[Len(s)])
    /\ lstart = Len(s) /\ pos = Len(s)

\* C14: each unread comes right after a read that advanced the cursor
\* (never after another unread, never after a read at the end of the
\* input), the cursor stays within 0..len(input), and an unread rewinds by
\* exactly one.
C14_SinglePushback ==
    /\ [](0 <= pos /\ pos <= Len(s))
    /\ [][(lastop' = "unread" /\ pos' # pos)
          => (lastop = "read" /\ pos' = pos - 1)]_vars
    /\ [][pos' < pos => lastop' = "unread"]_vars

\* the identifier scan pushed back the character that ended the identifier
C14_Witness ==
    /\ pc = "lexer" /\ lpc = "idret" /\ lastop = "unread"
    /\ 0 < pos /\ pos < Len(s)
    /\ is_special_symbol(s[pos + 1])

\* index of the first character after index p that is not whitespace, or 0
FirstNonWhitespace(str, p) ==
    LET J == {j \in (p + 1)..Len(str) : ~is_whitespace(str[j])}
    IN  IF J = {} THEN 0 ELSE CHOOSE j \in J : \A k \in J : j <= k

\* the lengths of the known symbols that start at index j
KnownLengths(str, j) ==
    {k \in 1..(Len(str) - j + 1) : SubSeq(str, j, j + k - 1) \in DOMAIN token_map}

\* the longest of them
LongestKnown(str, j) ==
    CHOOSE k \in KnownLengths(str, j) : \A h \in KnownLengths(str, j) : h <= k

\* lex has returned, having begun at lstart before a special symbol
ReturnedSymbol ==
    /\ pc = "lexer" /\ lpc \in {"call", "raised"} /\ ltok # "None"
    /\ FirstNonWhitespace(s, lstart) # 0
    /\ is_special_symbol(s[FirstNonWhitespace(s, lstart)])

\* C15: when the next character that is not whitespace is a special symbol,
\* lex returns the longest known symbol that is a prefix of the remaining
\* input (`!=` as one NotEquals token, otherwise the one-character symbol),
\* with the symbol's text as literal and the cursor exactly after it.
C15_LongestSymbol ==
    ReturnedSymbol
    => /\ lpc = "call"
       /\ KnownLengths(s, FirstNonWhitespace(s, lstart)) # {}
       /\ Len(llit) = LongestKnown(s, FirstNonWhitespace(s, lstart))
       /\ llit = SubSeq(s, FirstNonWhitespace(s, lstart),
                        FirstNonWhitespace(s, lstart) + Len(llit) - 1)
       /\ ltok = token_map[llit]
       /\ pos = FirstNonWhitespace(s, lstart) + Len(llit) - 1
       /\ IF /\ s[FirstNonWhitespace(s, lstart)] = "!"
             /\ FirstNonWhitespace(s, lstart) < Len(s)
             /\ s[FirstNonWhitespace(s, lstart) + 1] = "="
          THEN ltok = "NotEqualsToken" /\ llit = <<"!", "=">>
          ELSE llit = <<s[FirstNonWhitespace(s, lstart)]>>

\* `!=` was returned with a special symbol right behind it
C15_Witness ==
    /\ ReturnedSymbol /\ ltok = "NotEqualsToken"
    /\ pos < Len(s) /\ is_special_symbol(s[pos + 1])

\* C20: lex never returns UnknownToken: scan_special_symbol has recognized
\* a symbol whenever it reads its last recognized item, so neither the
\* lexical-error outcome nor a read of the unset item happens.
C20_NoUnknownToken ==
    /\ ltok \notin {"UnknownToken", "AttributeError"}
    /\ lpc # "raised"
    /\ (lpc \in {"ssunread", "ssret"} \/ (lpc = "special" /\ cur_buffer # <<>>))
       => /\ last_scanned_item # NoItem
          /\ last_scanned_item.tok
                 \in {token_map[k] : k \in DOMAIN token_map}
          /\ last_scanned_item.tok # "UnknownToken"

\* scan_special_symbol is about to return a symbol that it recognized
\* before a special character that extends no known symbol
C20_Witness ==
    /\ pc = "lexer" /\ lpc = "ssret" /\ lastop = "unread"
    /\ last_scanned_item # NoItem
    /\ Len(cur_buffer) > Len(last_scanned_item.literal)

EndOfStringAt(i) == scanned_items[i].tok = "EndOfStringToken"

\* the tokens lex can return
Tokens == {token_map[k] : k \in DOMAIN token_map}
              \cup {"IdentifierToken", "EndOfStringToken"}

\* C19: parse terminates.  A lex call that returns another token than the
\* end of the string advances the cursor by at least one character and the
\* cursor never passes the end of the text, so Parser.scan ends, with a
\* token sequence whose last and only end-of-string token is its final
\* element; every pass of the parser's loop either ends parse, with a
\* selector or with an error, or consumes at least one token and leaves one
\* to read; and while parse runs its next step exists.
C19_ParseTerminates ==
    /\ [][(/\ Len(scanned_items') = Len(scanned_items) + 1
           /\ scanned_items'[Len(scanned_items')].tok # "EndOfStringToken")
          => (pc' = "scan" /\ pos' >= pos + 1)]_vars
    /\ [](pos <= Len(s))
    /\ [](pc = "scan"
          => /\ \A i \in 1..Len(scanned_items) : ~EndOfStringAt(i)
             /\ lex(s, pos).tok \in Tokens)
    /\ [](pc \in {"parse", "done"}
          => /\ Len(scanned_items) > 0
             /\ \A i \in 1..Len(scanned_items) :
                    EndOfStringAt(i) <=> i = Len(scanned_items))
    /\ [](pc = "parse"
          => parse_pass(scanned_items, position, requirements).ret
                 \in {"continue", "return", "raise"})
    /\ [][pc = "parse"
          => \/ pc' \in {"done", "error"}
             \/ /\ pc' = "parse"
                /\ position' >= position + 1
                /\ position' < Len(scanned_items)]_vars

\* parse returned a selector of two requirements after two passes of its
\* loop over a text with whitespace
C19_Witness ==
    /\ pc = "done" /\ Len(Reqs) = 2
    /\ position = Len(scanned_items) /\ pos = Len(s)
    /\ \E i \in 1..Len(s) : is_whitespace(s[i])

\* the second matches call has ended
Ended2 == mres2 \in {"True", "False", "ValueError"}

\* C11: matches leaves the selector, with every requirement's key, operator
\* and values, and the candidate map as they are, and however the steps of
\* two calls on one Selector interleave, each call ends with the result it
\* has when it runs alone.
C11_SharedSelector ==
    /\ [](Ended => mres = Selector_matches(selector, kvs))
    /\ [](Ended2 => mres2 = Selector_matches(selector, kvs2))
    /\ [][(mres = "running" \/ mres2 = "running")
          => /\ selector' = selector
             /\ mres = "running" => kvs' = kvs
             /\ mres2 = "running" => kvs2' = kvs2]_vars

\* both calls are in the middle of the requirement sequence, on maps for
\* which the selector gives different results
C11_Witness ==
    /\ pc = "done" /\ Len(Reqs) = 2
    /\ mres = "running" /\ mi = 2
    /\ mres2 = "running" /\ mi2 = 2
    /\ kvs # kvs2
    /\ Selector_matches(selector, kvs) # Selector_matches(selector, kvs2)

====
